---- MODULE Spec2Model ----
(***************************************************************************)
(* HaltHandle of async-utils (src/open/utils-rs/async-utils/src/lib.rs):   *)
(* the spawn / ready / halt / join protocol, the Trigger / Tripwire pair   *)
(* it is built on, and the task bodies of the crate's own tests.           *)
(*                                                                         *)
(* Option values are sets: {} is None, {x} is Some(x).                     *)
(*                                                                         *)
(* Library semantics the code relies on (tokio 0.2):                       *)
(*  - watch::channel starts the channel at version 2 and its receiver at   *)
(*    version 0; Receiver::clone copies the version the receiver has seen; *)
(*    a poll swaps the channel's version in and is Ready when it differed, *)
(*    or when the Sender was dropped; broadcast adds 2 to the version.     *)
(*  - Notify holds at most one permit: notify() stores it, notified()      *)
(*    completes by consuming it.                                           *)
(*  - an unbounded mpsc channel is FIFO; send fails once the receiver is   *)
(*    dropped.                                                             *)
(*  - std::sync::Mutex is poisoned by a panic that unwinds while its guard *)
(*    is alive.                                                            *)
(***************************************************************************)
EXTENDS Integers, Sequences, FiniteSets, TLC

\* Bounds of the model.
MaxTasks == 2
MaxHaltCalls == 2
MaxCtrlcCalls == 2

\* The timeout the tests pass to join(), Duration::from_millis(100), in ticks.
TestTimeout == 1

\* watch::channel: the receiver's initial version and the channel's.
Version0 == 0
Version1 == 2

\* TaskMsg::Ready in the registration channel (TaskMsg::Task(i) is i >= 1).
ReadyMsg == 0

\* Task bodies of the tests:
\*   "forever": forever_stream(tripwire), then num_cancelled += 1
\*   "cleanup": forever_stream(tripwire), then delay_for(9001 s)
\*   "panic"  : panic!() at the first poll, the Tripwire is ignored
Kinds == {"forever", "cleanup", "panic"}

\* A task body in the way the Tripwire's documentation suggests ("select!()
\* or similar"), polling a Tripwire it keeps:
\*   "rewait" : (&mut tripwire).await, then tripwire.await
WireKinds == Kinds \cup {"rewait"}

\* Arguments of join(): None or Some(duration in ticks).
Timeouts == {{}, {TestTimeout}}

VARIABLES
    tasks,         \* the spawned tasks, in spawn order
    chan,          \* tasks_tx -> tasks_rx, the queued TaskMsg
    readyAt,       \* {} before ready(), {n} after it, n tasks spawned before
    version,       \* watch channel: Shared.version
    closed,        \* watch channel: the Sender (Trigger) was dropped
    haltTaken,     \* HaltHandle.halt is None
    haltPc,        \* where the halt() call that took the record is
    haltCalls,     \* number of halt() calls made
    permit,        \* Notify: a stored permit
    notifyCount,   \* number of notify() calls made
    tasksTaken,    \* HaltHandle.tasks is None
    poisoned,      \* the tasks mutex is poisoned
    lastJoinPanic, \* panic of the last join() call that failed
    joinPc,        \* phase of the join that took Tasks
    joinTimeout,   \* its timeout argument
    joinCtx,       \* whether halt() had returned when it was called
    handles,       \* the handles it collected
    timer,         \* {} no timer, {n} n ticks left of ft.timeout(timeout)
    joinErr,       \* the JoinError it returned: {} or {task}
    numCancelled,  \* the tests' shared counter
    waited,        \* ticks a join with a timeout has been pending after halt
    sendLost,      \* a send of spawn() or ready() failed, its Err ignored
    ctrlc,         \* ctrlc_task_spawned and the listener task it guards
    dropped        \* the HaltHandle itself was dropped

vars == <<tasks, chan, readyAt, version, closed, haltTaken, haltPc,
          haltCalls, permit, notifyCount, tasksTaken, poisoned,
          lastJoinPanic, joinPc, joinTimeout, joinCtx, handles, timer,
          joinErr, numCancelled, waited, sendLost, ctrlc, dropped>>

\* The fields of the HaltHandle and what hangs off them.
coordVars == <<chan, version, closed, haltTaken, haltPc, permit, notifyCount,
               tasksTaken, poisoned>>

\* The local state of the join in progress.
joinVars == <<joinPc, joinTimeout, joinCtx, handles, timer, joinErr>>

Pending == {"WaitingForHalt", "DrainingRegistry", "AwaitingTasks"}
Resolved == {"Success", "Timeout", "TaskFailed"}

\* tasks_rx exists: still in the HaltHandle, or owned by a pending join.
RxAlive == ~tasksTaken \/ joinPc \in Pending

\* halt() has returned.
HaltDone == haltTaken /\ haltPc = "idle"

\* Trigger::cancel has broadcast.
Fired == version > Version1

FireCount == (version - Version1) \div 2

Init ==
    /\ tasks = <<>>
    /\ chan = <<>>
    /\ readyAt = {}
    /\ version = Version1
    /\ closed = FALSE
    /\ haltTaken = FALSE
    /\ haltPc = "idle"
    /\ haltCalls = 0
    /\ permit = FALSE
    /\ notifyCount = 0
    /\ tasksTaken = FALSE
    /\ poisoned = FALSE
    /\ lastJoinPanic = "none"
    /\ joinPc = "Created"
    /\ joinTimeout = {}
    /\ joinCtx = [halted |-> FALSE]
    /\ handles = <<>>
    /\ timer = {}
    /\ joinErr = {}
    /\ numCancelled = 0
    /\ waited = 0
    /\ sendLost = FALSE
    /\ ctrlc = [flag |-> FALSE, calls |-> 0, installed |-> 0, st |-> "none"]
    /\ dropped = FALSE

-----------------------------------------------------------------------------
(* Trigger / Tripwire *)

\* Receiver::clone of the prototype, which is never polled.
TripwireClone == {Version0}

\* Tripwire::poll: Ready when the version differs from the one seen
\* (Some) or the Sender is gone (None); both map to ().
\* (Fault variant: None is taken for "not cancelled".)
TripwirePollMut(seen, ver, isClosed) == seen /= ver /\ ~isClosed
TripwirePoll(seen, ver, isClosed) == seen /= ver \/ isClosed

\* mpsc send: appended while the receiver exists, else Err, which is ignored.
\* (Fault variants: the message jumps the queue; the message is queued
\* though nothing will receive it.)
SendQueuedMut(msg) == Append(chan, msg)
SendMut(msg) == IF RxAlive THEN <<msg>> \o chan ELSE chan
Send(msg) == IF RxAlive THEN Append(chan, msg) ELSE chan

-----------------------------------------------------------------------------
(* spawn, ready *)

Spawn(k) ==
    /\ Len(tasks) < MaxTasks
    /\ tasks' = Append(tasks,
                   [kind |-> k,
                    st |-> "running",
                    wire |-> IF k = "panic" THEN {} ELSE TripwireClone,
                    late |-> Fired])
    /\ chan' = Send(Len(tasks) + 1)
    /\ sendLost' = (sendLost \/ ~RxAlive)
    /\ UNCHANGED <<readyAt, version, closed, haltTaken, haltPc, haltCalls,
                   permit, notifyCount, tasksTaken, poisoned, lastJoinPanic,
                   joinVars, numCancelled, waited, ctrlc, dropped>>

Ready ==
    /\ readyAt = {}
    /\ readyAt' = {Len(tasks)}
    /\ chan' = Send(ReadyMsg)
    /\ sendLost' = (sendLost \/ ~RxAlive)
    /\ UNCHANGED <<tasks, version, closed, haltTaken, haltPc, haltCalls,
                   permit, notifyCount, tasksTaken, poisoned, lastJoinPanic,
                   joinVars, numCancelled, waited, ctrlc, dropped>>

-----------------------------------------------------------------------------
(* the spawned tasks *)

\* One poll of task i. A "cleanup" task that has seen the cancellation sits
\* in delay_for(9001 s), which no join of the model outlasts: it stays
\* "delayed". A poll that returns Pending leaves the version it has seen.
\* A "rewait" task whose first await returned (its Tripwire had seen
\* Version0) keeps the Tripwire, with the version that poll swapped in.
TaskPoll(i) ==
    /\ i \in 1..Len(tasks)
    /\ tasks[i].st = "running"
    /\ LET t == tasks[i]
           resolves == \E seen \in t.wire : TripwirePoll(seen, version, closed)
       IN  IF t.kind = "panic"
           THEN /\ tasks' = [tasks EXCEPT ![i].st = "panicked"]
                /\ UNCHANGED numCancelled
           ELSE IF resolves /\ ~(t.kind = "rewait" /\ Version0 \in t.wire)
           THEN /\ tasks' = [tasks EXCEPT
                               ![i].st = IF t.kind = "cleanup" THEN "delayed"
                                         ELSE "done",
                               ![i].wire = {}]
                /\ numCancelled' = IF t.kind = "forever" THEN numCancelled + 1
                                   ELSE numCancelled
           ELSE /\ tasks' = [tasks EXCEPT ![i].wire = {version}]
                /\ UNCHANGED numCancelled
    /\ UNCHANGED <<chan, readyAt, version, closed, haltTaken, haltPc,
                   haltCalls, permit, notifyCount, tasksTaken, poisoned,
                   lastJoinPanic, joinVars, waited, sendLost, ctrlc, dropped>>

-----------------------------------------------------------------------------
(* halt *)

\* Option::take on the Halt record: whether the HaltHandle holds None after.
\* (Fault variant: the record is left in place.)
HaltTakeMut(rec) == rec
HaltTake(rec) == TRUE

\* Notify::notify: the permit afterwards, given whether join is waiting.
\* (Fault variant: a notify with no waiter is lost.)
NotifyMut(waiting) == waiting
Notify(waiting) == TRUE

\* (Fault variant of HaltEnter: notify_join.notify() comes first, before
\* trigger.cancel().)
HaltEnterMut ==
    /\ haltPc = "idle"
    /\ haltCalls < MaxHaltCalls
    /\ haltCalls' = haltCalls + 1
    /\ IF haltTaken
       THEN UNCHANGED <<tasks, chan, readyAt, version, closed, haltTaken,
                        haltPc, permit, notifyCount, tasksTaken, poisoned,
                        lastJoinPanic, joinVars, numCancelled, waited,
                        sendLost, dropped>>
       ELSE /\ haltTaken' = TRUE
            /\ permit' = TRUE
            /\ haltPc' = "cancel"
            /\ UNCHANGED <<tasks, chan, readyAt, version, closed,
                           notifyCount, tasksTaken, poisoned, lastJoinPanic,
                           joinVars, numCancelled, waited, sendLost, dropped>>

\* halt(): lock, take. The guard lives to the end of the if-let, so a
\* concurrent caller blocks in lock() until the first has notified: callers
\* are not told apart, a call begins when it gets the lock.
HaltEnter ==
    /\ haltPc = "idle"
    /\ haltCalls < MaxHaltCalls
    /\ haltCalls' = haltCalls + 1
    /\ IF haltTaken
       THEN UNCHANGED <<tasks, chan, readyAt, version, closed, haltTaken,
                        haltPc, permit, notifyCount, tasksTaken, poisoned,
                        lastJoinPanic, joinVars, numCancelled, waited,
                        sendLost, dropped>>
       ELSE /\ haltTaken' = HaltTake(haltTaken)
            /\ haltPc' = "cancel"
            /\ UNCHANGED <<tasks, chan, readyAt, version, closed, permit,
                           notifyCount, tasksTaken, poisoned, lastJoinPanic,
                           joinVars, numCancelled, waited, sendLost, dropped>>

\* halt() called by the program.
HaltCall ==
    /\ HaltEnter
    /\ UNCHANGED ctrlc

\* halt.trigger.cancel(): broadcast(()) adds 2 to the version, and the
\* Sender, consumed by cancel(self), is dropped.
HaltCancel ==
    /\ haltPc = "cancel"
    /\ version' = version + 2
    /\ closed' = TRUE
    /\ haltPc' = "notify"
    /\ UNCHANGED <<tasks, chan, readyAt, haltTaken, haltCalls, permit,
                   notifyCount, tasksTaken, poisoned, lastJoinPanic, joinVars,
                   numCancelled, waited, sendLost, ctrlc, dropped>>

\* notify_join.notify(), then the guard is released.
HaltNotify ==
    /\ haltPc = "notify"
    /\ permit' = Notify(joinPc = "WaitingForHalt")
    /\ notifyCount' = notifyCount + 1
    /\ haltPc' = "idle"
    /\ UNCHANGED <<tasks, chan, readyAt, version, closed, haltTaken,
                   haltCalls, tasksTaken, poisoned, lastJoinPanic, joinVars,
                   numCancelled, waited, sendLost, ctrlc, dropped>>

-----------------------------------------------------------------------------
(* halt_on_ctrlc, handle_ctrlc *)

\* ctrlc_task_spawned.compare_and_swap(false, true, SeqCst): the value it
\* returns and the flag afterwards.
\* (Fault variant: a load, the flag is never set.)
CompareAndSwapMut(flag) == [prev |-> flag, now |-> flag]
CompareAndSwap(flag) == [prev |-> flag, now |-> TRUE]

\* halt_on_ctrlc() / handle_ctrlc(f): one atomic compare_and_swap; when it
\* returns false, f(self) is called and the listener task is spawned.
HandleCtrlc ==
    /\ ctrlc.calls < MaxCtrlcCalls
    /\ LET cas == CompareAndSwap(ctrlc.flag)
       IN  ctrlc' = [flag |-> cas.now,
                     calls |-> ctrlc.calls + 1,
                     installed |-> IF cas.prev THEN ctrlc.installed
                                   ELSE ctrlc.installed + 1,
                     st |-> IF cas.prev THEN ctrlc.st ELSE "waiting"]
    /\ UNCHANGED <<tasks, chan, readyAt, version, closed, haltTaken, haltPc,
                   haltCalls, permit, notifyCount, tasksTaken, poisoned,
                   lastJoinPanic, joinVars, numCancelled, waited, sendLost,
                   dropped>>

\* signal::ctrl_c().await in the listener task: SIGINT arrives.
CtrlcSignal ==
    /\ ctrlc.st = "waiting"
    /\ ctrlc' = [ctrlc EXCEPT !.st = "signalled"]
    /\ UNCHANGED <<tasks, chan, readyAt, version, closed, haltTaken, haltPc,
                   haltCalls, permit, notifyCount, tasksTaken, poisoned,
                   lastJoinPanic, joinVars, numCancelled, waited, sendLost,
                   dropped>>

\* ft.await in the listener task, ft being `async move { this.halt() }`.
CtrlcHalt ==
    /\ ctrlc.st = "signalled"
    /\ HaltEnter
    /\ ctrlc' = [ctrlc EXCEPT !.st = "done"]

-----------------------------------------------------------------------------
(* drop *)

\* The HaltHandle is dropped, which nothing borrowing it can outlive: no
\* halt() is running, no join future is alive, no listener task holds its
\* Arc. Its fields go: the Halt record if still there, and with it the
\* Trigger (the Sender is dropped unfired), tasks_tx, and Tasks if still
\* there, with the receiver and what is queued.
DropHandle ==
    /\ ~dropped
    /\ haltPc = "idle"
    /\ joinPc \notin Pending
    /\ ctrlc.st \notin {"waiting", "signalled"}
    /\ dropped' = TRUE
    /\ closed' = (closed \/ ~haltTaken)
    /\ chan' = <<>>
    /\ UNCHANGED <<tasks, readyAt, version, haltTaken, haltPc, haltCalls,
                   permit, notifyCount, tasksTaken, poisoned, lastJoinPanic,
                   joinVars, numCancelled, waited, sendLost, ctrlc>>

-----------------------------------------------------------------------------
(* join *)

\* self.tasks.lock()...take(): whether it yields Some(tasks).
TasksTake(taken) == ~taken

\* notified().await: completes by consuming the permit.
\* (Fault variant: it completes without one.)
NotifiedMut(p) == TRUE
Notified(p) == p

\* ft.timeout(timeout): the delay armed for Some(timeout), none for None.
\* (Fault variant: the timeout is dropped.)
StartTimerMut(t) == {}
StartTimer(t) == t

\* A JoinHandle resolves when its task has ended, normally or by a panic.
Finished(i) == tasks[i].st \in {"done", "panicked"}

\* future::join_all(handles): ready when every handle is.
\* (Fault variants: ready when some handle is; ready at the first panic,
\* as try_join_all would be.)
JoinAllEarlyMut(hs) ==
    \/ \A j \in 1..Len(hs) : Finished(hs[j])
    \/ \E j \in 1..Len(hs) : tasks[hs[j]].st = "panicked"
JoinAllMut(hs) == \E j \in 1..Len(hs) : Finished(hs[j])
JoinAll(hs) == \A j \in 1..Len(hs) : Finished(hs[j])

\* The Result a JoinHandle yields: Ok(()) is {}, Err(JoinError) of task i
\* is {i}.
TaskResult(i) == IF tasks[i].st = "panicked" THEN {i} ELSE {}

\* Result::and (fault variant: the later error wins).
ResultAndMut(acc, r) == IF r = {} THEN acc ELSE r
ResultAnd(acc, r) == IF acc = {} THEN r ELSE acc

\* res.drain(..).fold(Ok(()), Result::and) over the results in handle order.
RECURSIVE Fold(_, _)
Fold(hs, acc) ==
    IF hs = <<>> THEN acc
    ELSE Fold(Tail(hs), ResultAnd(acc, TaskResult(Head(hs))))

\* join(timeout), first poll: lock, take, expect. The guard is a temporary
\* of the let statement: the second expect panics while it is alive, which
\* poisons the mutex; the first expect panics on a poisoned mutex.
JoinCall(t) ==
    IF poisoned
    THEN /\ lastJoinPanic' = "poisoned"
         /\ UNCHANGED <<tasks, chan, readyAt, version, closed, haltTaken,
                        haltPc, haltCalls, permit, notifyCount, tasksTaken,
                        poisoned, joinVars, numCancelled, waited, sendLost,
                        ctrlc, dropped>>
    ELSE IF ~TasksTake(tasksTaken)
    THEN /\ lastJoinPanic' = "multiple"
         /\ poisoned' = TRUE
         /\ UNCHANGED <<tasks, chan, readyAt, version, closed, haltTaken,
                        haltPc, haltCalls, permit, notifyCount, tasksTaken,
                        joinVars, numCancelled, waited, sendLost, ctrlc,
                        dropped>>
    ELSE /\ tasksTaken' = TRUE
         /\ joinPc' = "WaitingForHalt"
         /\ joinTimeout' = t
         /\ joinCtx' = [halted |-> HaltDone]
         /\ handles' = <<>>
         /\ timer' = {}
         /\ joinErr' = {}
         /\ UNCHANGED <<tasks, chan, readyAt, version, closed, haltTaken,
                        haltPc, haltCalls, permit, notifyCount, poisoned,
                        lastJoinPanic, numCancelled, waited, sendLost, ctrlc,
                        dropped>>

\* tasks.notify_join.notified().await
JoinNotified ==
    /\ joinPc = "WaitingForHalt"
    /\ Notified(permit)
    /\ permit' = FALSE
    /\ joinPc' = "DrainingRegistry"
    /\ UNCHANGED <<tasks, chan, readyAt, version, closed, haltTaken, haltPc,
                   haltCalls, notifyCount, tasksTaken, poisoned,
                   lastJoinPanic, joinTimeout, joinCtx, handles, timer,
                   joinErr, numCancelled, waited, sendLost, ctrlc, dropped>>

\* (Fault variant of JoinRecv: a Ready with messages queued behind it does
\* not end the loop.)
JoinRecvPastReadyMut ==
    /\ joinPc = "DrainingRegistry"
    /\ chan /= <<>>
    /\ chan' = Tail(chan)
    /\ IF Head(chan) = ReadyMsg
       THEN IF Tail(chan) = <<>>
            THEN /\ joinPc' = "AwaitingTasks"
                 /\ timer' = StartTimer(joinTimeout)
                 /\ UNCHANGED handles
            ELSE UNCHANGED <<joinPc, timer, handles>>
       ELSE /\ handles' = Append(handles, Head(chan))
            /\ UNCHANGED <<joinPc, timer>>
    /\ UNCHANGED <<tasks, readyAt, version, closed, haltTaken, haltPc,
                   haltCalls, permit, notifyCount, tasksTaken, poisoned,
                   lastJoinPanic, joinTimeout, joinCtx, joinErr, numCancelled,
                   waited, sendLost, ctrlc, dropped>>

\* (Fault variant of JoinRecv: the loop ends when nothing is queued, as a
\* try_recv loop would.)
JoinRecvUntilEmptyMut ==
    /\ joinPc = "DrainingRegistry"
    /\ IF chan = <<>> \/ Head(chan) = ReadyMsg
       THEN /\ joinPc' = "AwaitingTasks"
            /\ timer' = StartTimer(joinTimeout)
            /\ chan' = IF chan = <<>> THEN chan ELSE Tail(chan)
            /\ UNCHANGED handles
       ELSE /\ handles' = Append(handles, Head(chan))
            /\ chan' = Tail(chan)
            /\ UNCHANGED <<joinPc, timer>>
    /\ UNCHANGED <<tasks, readyAt, version, closed, haltTaken, haltPc,
                   haltCalls, permit, notifyCount, tasksTaken, poisoned,
                   lastJoinPanic, joinTimeout, joinCtx, joinErr, numCancelled,
                   waited, sendLost, ctrlc, dropped>>

\* One turn of `while let Some(task_msg) = tasks.tasks_rx.next().await`;
\* on Ready the loop ends and ft.timeout(timeout) starts its timer.
JoinRecv ==
    /\ joinPc = "DrainingRegistry"
    /\ chan /= <<>>
    /\ chan' = Tail(chan)
    /\ IF Head(chan) = ReadyMsg
       THEN /\ joinPc' = "AwaitingTasks"
            /\ timer' = StartTimer(joinTimeout)
            /\ UNCHANGED handles
       ELSE /\ handles' = Append(handles, Head(chan))
            /\ UNCHANGED <<joinPc, timer>>
    /\ UNCHANGED <<tasks, readyAt, version, closed, haltTaken, haltPc,
                   haltCalls, permit, notifyCount, tasksTaken, poisoned,
                   lastJoinPanic, joinTimeout, joinCtx, joinErr, numCancelled,
                   waited, sendLost, ctrlc, dropped>>

\* join_all is ready (Timeout polls it before its delay): fold the results
\* and return; `tasks`, with the receiver and what is queued, is dropped.
JoinAllDone ==
    /\ joinPc = "AwaitingTasks"
    /\ JoinAll(handles)
    /\ LET res == Fold(handles, {})
       IN  /\ joinPc' = IF res = {} THEN "Success" ELSE "TaskFailed"
           /\ joinErr' = res
    /\ timer' = {}
    /\ chan' = <<>>
    /\ UNCHANGED <<tasks, readyAt, version, closed, haltTaken, haltPc,
                   haltCalls, permit, notifyCount, tasksTaken, poisoned,
                   lastJoinPanic, joinTimeout, joinCtx, handles, numCancelled,
                   waited, sendLost, ctrlc, dropped>>

\* (Fault variant of JoinTimeout: the timeout wraps the drain as well.)
JoinTimeoutMut ==
    /\ joinPc \in {"DrainingRegistry", "AwaitingTasks"}
    /\ joinTimeout /= {}
    /\ joinPc = "AwaitingTasks" => ~JoinAll(handles) /\ timer = {0}
    /\ joinPc' = "Timeout"
    /\ timer' = {}
    /\ chan' = <<>>
    /\ UNCHANGED <<tasks, readyAt, version, closed, haltTaken, haltPc,
                   haltCalls, permit, notifyCount, tasksTaken, poisoned,
                   lastJoinPanic, joinTimeout, joinCtx, handles, joinErr,
                   numCancelled, waited, sendLost, ctrlc, dropped>>

\* The delay of ft.timeout(timeout) elapsed first: Err(HaltError::Timeout).
JoinTimeout ==
    /\ joinPc = "AwaitingTasks"
    /\ ~JoinAll(handles)
    /\ timer = {0}
    /\ joinPc' = "Timeout"
    /\ timer' = {}
    /\ chan' = <<>>
    /\ UNCHANGED <<tasks, readyAt, version, closed, haltTaken, haltPc,
                   haltCalls, permit, notifyCount, tasksTaken, poisoned,
                   lastJoinPanic, joinTimeout, joinCtx, handles, joinErr,
                   numCancelled, waited, sendLost, ctrlc, dropped>>

\* The caller drops the join future before it resolved: its locals go.
JoinAbandon ==
    /\ joinPc \in Pending
    /\ joinPc' = "Abandoned"
    /\ handles' = <<>>
    /\ timer' = {}
    /\ chan' = <<>>
    /\ UNCHANGED <<tasks, readyAt, version, closed, haltTaken, haltPc,
                   haltCalls, permit, notifyCount, tasksTaken, poisoned,
                   lastJoinPanic, joinTimeout, joinCtx, joinErr, numCancelled,
                   waited, sendLost, ctrlc, dropped>>

-----------------------------------------------------------------------------
(* time *)

\* The pending join can take a step now; it does so before time passes.
JoinCanStep ==
    \/ joinPc = "WaitingForHalt" /\ Notified(permit)
    \/ joinPc = "DrainingRegistry" /\ chan /= <<>>
    \/ joinPc = "AwaitingTasks" /\ (JoinAll(handles) \/ timer = {0})

\* One tick of the clock: the timer of ft.timeout(timeout) runs down, and
\* a join with a timeout that is pending after halt() has waited one more.
Tick ==
    /\ ~JoinCanStep
    /\ timer' = {IF n > 0 THEN n - 1 ELSE n : n \in timer}
    /\ waited' = IF /\ joinPc \in Pending
                    /\ HaltDone
                    /\ \E t \in joinTimeout : waited <= t
                 THEN waited + 1
                 ELSE waited
    /\ UNCHANGED <<tasks, chan, readyAt, version, closed, haltTaken, haltPc,
                   haltCalls, permit, notifyCount, tasksTaken, poisoned,
                   lastJoinPanic, joinPc, joinTimeout, joinCtx, handles,
                   joinErr, numCancelled, sendLost, ctrlc, dropped>>

-----------------------------------------------------------------------------
(* specifications *)

\* What keeps running once begun: the tasks, a halt() past its lock, a join
\* that is being awaited, the clock.
Progress ==
    \/ \E i \in 1..MaxTasks : TaskPoll(i)
    \/ HaltCancel
    \/ HaltNotify
    \/ JoinNotified
    \/ JoinRecv
    \/ JoinAllDone
    \/ JoinTimeout
    \/ Tick

\* The calls the program makes, in any order.
Calls ==
    \/ \E k \in Kinds : Spawn(k)
    \/ Ready
    \/ HaltCall
    \/ \E t \in Timeouts : JoinCall(t)

Next ==
    \/ Calls
    \/ Progress
    \/ JoinAbandon

Spec == Init /\ [][Next]_vars

\* join() is called once and awaited to its end, and the runtime is fair.
LiveNext ==
    \/ \E k \in Kinds : Spawn(k)
    \/ Ready
    \/ HaltCall
    \/ \E t \in Timeouts : ~tasksTaken /\ JoinCall(t)
    \/ Progress

Fairness ==
    /\ \A i \in 1..MaxTasks : WF_vars(TaskPoll(i))
    /\ WF_vars(HaltCancel)
    /\ WF_vars(HaltNotify)
    /\ WF_vars(JoinNotified)
    /\ WF_vars(JoinRecv)
    /\ WF_vars(JoinAllDone)
    /\ WF_vars(JoinTimeout)
    /\ WF_vars(Tick)

FairSpec == Init /\ [][LiveNext]_vars /\ Fairness

\* The program also registers for Ctrl + C, and SIGINT may arrive.
CtrlcNext ==
    \/ LiveNext
    \/ HandleCtrlc
    \/ CtrlcSignal
    \/ CtrlcHalt

CtrlcSpec == Init /\ [][CtrlcNext]_vars

\* The program may drop the HaltHandle, after which it makes no call; its
\* tasks may keep their Tripwire.
DropNext ==
    \/ ~dropped /\ Next
    \/ ~dropped /\ Spawn("rewait")
    \/ DropHandle
    \/ dropped /\ \E i \in 1..MaxTasks : TaskPoll(i)
    \/ dropped /\ Tick

DropSpec == Init /\ [][DropNext]_vars

-----------------------------------------------------------------------------
(* properties *)

\* The tasks spawned before ready(), as join should collect them.
SpawnedBeforeReady(n) == [i \in 1..n |-> i]

\* The collected tasks that panicked, by position in `handles`.
PanickedAt == {j \in 1..Len(handles) : tasks[handles[j]].st = "panicked"}

\* C1: join never resolves, with any outcome, in a state where halt() has
\* not been called: ready() alone, or all tasks having finished, does not
\* make it return.
C1_JoinPendingUntilHalt ==
    joinPc \in Resolved => haltCalls > 0 /\ haltTaken

\* C1 witness: every task spawned and finished, ready() called, join in
\* progress and still waiting because nobody called halt().
C1_Witness ==
    /\ joinPc = "WaitingForHalt"
    /\ haltCalls = 0
    /\ readyAt = {MaxTasks}
    /\ \A i \in 1..MaxTasks : Finished(i)

\* C2: when join has left the drain, the handles it collected are exactly
\* the tasks spawned before ready(), in spawn order, none lost, none added.
C2_DrainCollectsSpawnedBeforeReady ==
    joinPc \in {"AwaitingTasks"} \cup Resolved =>
        \E n \in readyAt : handles = SpawnedBeforeReady(n)

\* C2 witness: halt() ran first and had returned when join began, the tasks
\* were spawned after it, and join collected all of them.
C2_Witness ==
    /\ joinPc = "AwaitingTasks"
    /\ joinCtx.halted
    /\ Len(handles) = MaxTasks
    /\ \A i \in 1..MaxTasks : tasks[i].late

\* halt() and ready() were called and a join is in progress.
HaltedAndReady == haltCalls > 0 /\ readyAt /= {} /\ joinPc \in Pending

\* C3: under fair scheduling, once halt() and ready() have been called and
\* every task spawned before ready() is one that stops when its Tripwire
\* resolves, a join without a deadline eventually resolves with success.
C3_JoinEventuallySucceeds ==
    (/\ HaltedAndReady
     /\ joinTimeout = {}
     /\ \A n \in readyAt : \A i \in 1..n : tasks[i].kind = "forever")
    ~> (joinPc = "Success")

\* C3 witness: halt() had returned before join began, every task was
\* spawned after the Trigger fired, and join returned success.
C3_Witness ==
    /\ joinPc = "Success"
    /\ joinTimeout = {}
    /\ joinCtx.halted
    /\ Len(handles) = MaxTasks
    /\ \A i \in 1..MaxTasks : tasks[i].late /\ tasks[i].kind = "forever"

\* C4: when join has resolved with success every collected task has ended
\* normally, and when the N collected tasks are all the tasks there are and
\* each increments the counter once, the counter is N.
C4_SuccessMeansTasksStopped ==
    joinPc = "Success" =>
        /\ \A j \in 1..Len(handles) : tasks[handles[j]].st = "done"
        /\ (/\ Len(handles) = Len(tasks)
            /\ \A i \in 1..Len(tasks) : tasks[i].kind = "forever")
           => numCancelled = Len(handles)

\* C4 witness: join without a deadline returned success over MaxTasks
\* counting tasks.
C4_Witness ==
    /\ joinPc = "Success"
    /\ joinTimeout = {}
    /\ Len(handles) = MaxTasks
    /\ \A i \in 1..MaxTasks : tasks[i].kind = "forever"
    /\ numCancelled = MaxTasks

\* C5: when the wait for the tasks completed, the result is success iff no
\* collected task panicked, and otherwise TaskFailed with the error of the
\* first panicked task in collection order.
C5_FirstErrorInCollectionOrder ==
    joinPc \in {"Success", "TaskFailed"} =>
        /\ joinPc = "Success" <=> PanickedAt = {}
        /\ joinPc = "Success" => joinErr = {}
        /\ joinPc = "TaskFailed" =>
              \E j \in PanickedAt :
                  /\ \A k \in PanickedAt : j <= k
                  /\ joinErr = {handles[j]}

\* C5 witness: two collected tasks panicked and join reported the first.
C5_Witness ==
    /\ joinPc = "TaskFailed"
    /\ Cardinality(PanickedAt) >= 2
    /\ joinErr = {handles[1]}

\* A task spawned before ready() never finishes.
CollectsEndlessTask ==
    \E n \in readyAt : \E i \in 1..n : tasks[i].kind = "cleanup"

\* C6: with halt() and ready() called and a collected task that never
\* finishes, a join with a deadline never resolves with success and,
\* under fair scheduling, resolves with Timeout.
C6_EndlessTaskTimesOut ==
    /\ [](CollectsEndlessTask => joinPc /= "Success")
    /\ (HaltedAndReady /\ joinTimeout /= {} /\ CollectsEndlessTask)
       ~> (joinPc = "Timeout")

\* C6 witness: join returned Timeout while a collected task was still in
\* its delay and the other collected tasks had finished.
C6_Witness ==
    /\ joinPc = "Timeout"
    /\ Len(handles) = MaxTasks
    /\ tasks[handles[1]].st = "delayed"
    /\ \A j \in 2..Len(handles) : Finished(handles[j])

\* C7: the timeout is the most join waits after halt(): a join with
\* timeout T that is pending once halt() has returned has waited at most T
\* since, whenever ready() is called and whether or not the tasks finish.
C7_JoinWaitsAtMostTimeoutAfterHalt ==
    joinPc \in Pending /\ HaltDone => \A t \in joinTimeout : waited <= t

\* C8: the Trigger is fired once and the notifier notified once, both by
\* the first halt() call, and a later call changes nothing but the count
\* of calls.
C8_HaltOnce ==
    /\ [](/\ FireCount <= 1
          /\ notifyCount <= 1
          /\ HaltDone => FireCount = 1 /\ notifyCount = 1)
    /\ [][haltCalls >= 1 /\ haltCalls' > haltCalls =>
            UNCHANGED <<tasks, chan, readyAt, version, closed, haltTaken,
                        haltPc, permit, notifyCount, tasksTaken, poisoned,
                        lastJoinPanic, joinVars, numCancelled, waited>>]_vars

\* C8 witness: halt() was called again after the first call had returned,
\* with tasks spawned after the first call and a join that has resolved.
C8_Witness ==
    /\ haltCalls = MaxHaltCalls
    /\ FireCount = 1
    /\ notifyCount = 1
    /\ joinPc \in Resolved
    /\ \E i \in 1..Len(tasks) : tasks[i].late

\* Task i was spawned after the Trigger fired and awaits its Tripwire.
SpawnedAfterFire(i) ==
    i <= Len(tasks) /\ tasks[i].late /\ tasks[i].kind /= "panic"

\* Task i has been polled and its poll returned Pending.
LeftPending(i) ==
    /\ i <= Len(tasks)
    /\ tasks[i].st = "running"
    /\ tasks[i].wire /= TripwireClone

\* Task i no longer awaits its Tripwire.
Stopped(i) == i <= Len(tasks) /\ tasks[i].st /= "running"

\* C9: a Tripwire cloned after the Trigger has fired resolves at its first
\* poll (a task spawned after the firing is never left pending by a poll),
\* and under fair scheduling no such task waits for cancellation forever.
C9_LateTripwireResolves ==
    /\ [](\A i \in 1..MaxTasks : SpawnedAfterFire(i) => ~LeftPending(i))
    /\ \A i \in 1..MaxTasks : SpawnedAfterFire(i) ~> Stopped(i)

\* C9 witness: a task spawned after halt() returned has seen the
\* cancellation and stopped.
C9_Witness ==
    \E i \in 1..Len(tasks) :
        /\ tasks[i].late
        /\ tasks[i].kind = "forever"
        /\ tasks[i].st = "done"
        /\ HaltDone

\* C10: a join() call on a coordinator whose Tasks were already taken
\* panics and changes neither the coordinator nor the first join.
C10_SecondJoinChangesNothing ==
    [][tasksTaken /\ (\E t \in Timeouts : JoinCall(t)) =>
          /\ lastJoinPanic' /= "none"
          /\ UNCHANGED <<coordVars, joinVars, tasks, readyAt, haltCalls,
                         numCancelled, waited>>]_vars

\* Task i holds a Tripwire that its last poll left pending.
PendingOnTripwire(i) == LeftPending(i) /\ tasks[i].wire /= {}

\* C11: dropping the HaltHandle without halt() having been called has no
\* effect on the spawned tasks: once it is dropped, a task that a poll left
\* pending on its Tripwire is still pending after every further step.
C11_DropLeavesTasksRunning ==
    [][dropped' /\ haltCalls' = 0 =>
          \A i \in 1..MaxTasks :
              PendingOnTripwire(i) => PendingOnTripwire(i)']_vars

\* Task i was spawned after ready().
SpawnedAfterReady(i) == i <= Len(tasks) /\ \E n \in readyAt : i > n

\* The tasks whose handles the join holds.
Collected == {handles[j] : j \in 1..Len(handles)}

\* C12: a task spawned after ready() is never among the handles the join
\* collects, and a join that returns TaskFailed does so for a panic of a
\* collected task: a panic of a task spawned after ready() never does it.
C12_LateSpawnNotCollected ==
    /\ \A i \in 1..MaxTasks : SpawnedAfterReady(i) => i \notin Collected
    /\ joinPc = "TaskFailed" =>
           PanickedAt /= {} /\ joinErr \subseteq Collected

\* C12 witness: join returned success over the task it collected while a
\* task spawned after ready() had panicked.
C12_Witness ==
    /\ joinPc = "Success"
    /\ Len(handles) >= 1
    /\ \E i \in 1..Len(tasks) :
           SpawnedAfterReady(i) /\ tasks[i].st = "panicked"

\* C13: spawn() and ready() can be called in every state (ready() once in
\* the model), and with the receiver gone the call does what it does
\* otherwise, start the task or record ready, the send that failed leaving
\* no message and no other trace in the coordinator or the join.
C13_SpawnAndReadyNeverFail ==
    /\ [](/\ Len(tasks) < MaxTasks => \A k \in Kinds : ENABLED Spawn(k)
          /\ readyAt = {} => ENABLED Ready)
    /\ [][~RxAlive /\ (Len(tasks') > Len(tasks) \/ readyAt' /= readyAt) =>
            /\ chan' = chan
            /\ chan = <<>>
            /\ sendLost'
            /\ Len(tasks') > Len(tasks) =>
                   tasks'[Len(tasks')].st = "running"
            /\ UNCHANGED <<version, closed, haltTaken, haltPc, haltCalls,
                           permit, notifyCount, tasksTaken, poisoned,
                           lastJoinPanic, joinVars>>]_vars

\* C13 witness: a send failed, the receiver having gone with a join that
\* resolved, every task of the model was spawned, ready() was called, and
\* no call panicked.
C13_Witness ==
    /\ sendLost
    /\ joinPc \in Resolved
    /\ Len(tasks) = MaxTasks
    /\ readyAt /= {}
    /\ lastJoinPanic = "none"

\* C14: however many times halt_on_ctrlc() is called, one listener task at
\* most is installed, by the first call, and the Trigger is fired and the
\* notifier notified once at most, once exactly when the listener's halt()
\* has returned.
C14_OneCtrlcListener ==
    /\ ctrlc.installed <= 1
    /\ ctrlc.calls >= 1 => ctrlc.installed = 1 /\ ctrlc.flag
    /\ ctrlc.calls = 0 => ctrlc.st = "none"
    /\ FireCount <= 1
    /\ notifyCount <= 1
    /\ ctrlc.st = "done" /\ HaltDone => FireCount = 1 /\ notifyCount = 1

\* C14 witness: halt_on_ctrlc() was called more than once, SIGINT arrived,
\* and the listener's halt(), the only one called, has fired the Trigger
\* and notified.
C14_Witness ==
    /\ ctrlc.calls = MaxCtrlcCalls
    /\ ctrlc.installed = 1
    /\ ctrlc.st = "done"
    /\ haltCalls = 1
    /\ HaltDone
    /\ FireCount = 1
    /\ notifyCount = 1

JoinEdges ==
    {<<"Created", "WaitingForHalt">>,
     <<"WaitingForHalt", "DrainingRegistry">>,
     <<"DrainingRegistry", "AwaitingTasks">>}
    \cup {<<"AwaitingTasks", r>> : r \in Resolved}

\* C16: the phase of a join changes only along Created, WaitingForHalt,
\* DrainingRegistry, AwaitingTasks and then one of Success, Timeout,
\* TaskFailed (or the future is dropped while pending, which ends it); an
\* outcome never changes, and Timeout needs a deadline.
C16_JoinMovesForward ==
    /\ [][joinPc' /= joinPc =>
            \/ <<joinPc, joinPc'>> \in JoinEdges
            \/ joinPc \in Pending /\ joinPc' = "Abandoned"]_vars
    /\ [](joinPc = "Timeout" => joinTimeout /= {})

\* C16 witness: a join with a deadline returned Timeout, and still shows
\* it after a second join() call was made and panicked.
C16_Witness ==
    /\ joinPc = "Timeout"
    /\ joinTimeout = {TestTimeout}
    /\ lastJoinPanic = "multiple"

\* C17: while the Trigger exists and has not been fired, no task that
\* awaits its Tripwire has got past it.
C17_NoResolveBeforeFire ==
    ~Fired /\ ~closed =>
        \A i \in 1..Len(tasks) :
            tasks[i].kind /= "panic" => tasks[i].st = "running"

\* C18: a join that is past notified().await, draining, awaiting the tasks
\* or resolved, finds the Trigger fired.
C18_FiredBeforeJoinWakes ==
    joinPc \in {"DrainingRegistry", "AwaitingTasks"} \cup Resolved => Fired

\* C18 witness: the join awaits a collected task that was spawned before
\* the Trigger fired and has not been polled since.
C18_Witness ==
    /\ joinPc = "AwaitingTasks"
    /\ Fired
    /\ \E j \in 1..Len(handles) :
           /\ tasks[handles[j]].st = "running"
           /\ ~tasks[handles[j]].late

\* A collected task has panicked and a collected task never finishes.
PanicAndEndless == PanickedAt /= {} /\ CollectsEndlessTask

\* C19: a join returns TaskFailed only when every collected task has
\* finished; with a collected task panicked and another that never
\* finishes it never returns TaskFailed, without a deadline it does not
\* resolve, and with one, under fair scheduling, it returns Timeout.
C19_TaskFailedOnlyWhenAllFinished ==
    /\ [](joinPc = "TaskFailed" =>
             \A j \in 1..Len(handles) : Finished(handles[j]))
    /\ [](PanicAndEndless => joinPc /= "TaskFailed")
    /\ [](PanicAndEndless /\ joinTimeout = {} => joinPc \notin Resolved)
    /\ (PanicAndEndless /\ joinPc = "AwaitingTasks" /\ joinTimeout /= {})
       ~> (joinPc = "Timeout")

\* C19 witness: join returned Timeout with one collected task panicked and
\* another still in its delay.
C19_Witness ==
    /\ joinPc = "Timeout"
    /\ PanickedAt /= {}
    /\ \E j \in 1..Len(handles) : tasks[handles[j]].st = "delayed"

====
